---- MODULE Spec2Model ----
(***************************************************************************)
(* Ice Cream Topping Recommender MCP server (src/src/server/McpServer.ts). *)
(*                                                                         *)
(* The server registers two request handlers (list tools, call tool).     *)
(* A call-tool handler runs IceCreamToppingRecommenderTool.execute, which  *)
(* may suspend once at `await elicitInput(...)`.  JavaScript runs a        *)
(* handler without interruption between two awaits, so an action of this   *)
(* model is the code between two suspension points.                        *)
(*                                                                         *)
(* Spec is the server: call-tool and list-tools requests, interleaved.     *)
(* SpecExec is one call of execute(args, elicitInput?) on its own, over    *)
(* the whole range of argument and answer values, with or without an      *)
(* elicitation function.                                                   *)
(*                                                                         *)
(* JavaScript values are records [t |-> type, v |-> literal].  A text is   *)
(* the sequence of the pieces its template string is made of; the two      *)
(* emoji of the source are written as the ASCII tokens "[cross-mark] "     *)
(* and "[ice-cream] ".                                                     *)
(***************************************************************************)
EXTENDS Integers, Sequences, FiniteSets, TLC

VARIABLES
    inv,        \* inv[i]: the i-th call-tool request and its handler's progress
    listResp,   \* the responses given so far to list-tools requests, in order
    clientElicitation   \* the connected client declared the elicitation capability

vars == <<inv, listResp, clientElicitation>>

----------------------------------------------------------------------------
(* Bounds *)

MaxInv == 2     \* number of call-tool requests in one behaviour
MaxList == 2    \* number of list-tools requests in one behaviour

Ids == 1..MaxInv

----------------------------------------------------------------------------
(* JavaScript values *)

Undefined == [t |-> "undefined", v |-> ""]
Null == [t |-> "null", v |-> ""]
Str(s) == [t |-> "string", v |-> s]
Num(s) == [t |-> "number", v |-> s]
Bool(s) == [t |-> "boolean", v |-> s]

\* ToBoolean, as applied by `!flavour`, `result &&` and `&& ...?.flavour`
Truthy(x) ==
    CASE x.t = "string" -> x.v # ""
      [] x.t = "number" -> x.v \notin {"0", "NaN"}
      [] x.t = "boolean" -> x.v = "true"
      [] OTHER -> FALSE

\* String(x), as applied to a thrown value that is not an Error
JSString(x) ==
    CASE x.t = "undefined" -> "undefined"
      [] x.t = "null" -> "null"
      [] OTHER -> x.v

----------------------------------------------------------------------------
(* The tool: name, description, schema *)

getName == "ice_cream_topping_recommender"

getDescription ==
    "Recommends the best ice cream toppings based on your selected flavour."

FlavourEnum == <<"vanilla", "strawberry", "chocolate">>

FlavourDescription == "Choose a flavour: vanilla, strawberry, or chocolate."

getInputSchema ==
    [kind |-> "ZodObject",
     shape |-> [flavour |-> [kind |-> "ZodEnum",
                             values |-> FlavourEnum,
                             description |-> FlavourDescription]]]

\* the JSON schema sent with the elicitation request
jsonSchema ==
    [type |-> "object",
     properties |-> [flavour |-> [type |-> "string",
                                  enum |-> FlavourEnum,
                                  description |-> FlavourDescription]],
     required |-> <<"flavour">>]

ElicitParams ==
    [message |-> "Which ice cream flavour do you want toppings for? (vanilla, strawberry, or chocolate)",
     requestedSchema |-> jsonSchema]

----------------------------------------------------------------------------
(* Inputs *)

\* values a caller may put in the flavour field
FlavourValues ==
    {Str("vanilla"), Str("strawberry"), Str("chocolate"),
     Str("mango"), Str("Vanilla"), Str(""), Null, Num("0"), Num("42"), Bool("false")}

\* request.params.arguments: undefined, {} or {flavour: x}
NoArgs == [t |-> "undefined", flavour |-> Undefined]
ObjArgs(x) == [t |-> "object", flavour |-> x]
ArgsValues == {NoArgs, ObjArgs(Undefined)} \cup {ObjArgs(x) : x \in FlavourValues}

\* the arguments of the call-tool requests of Spec
RequestArgs ==
    {NoArgs, ObjArgs(Undefined), ObjArgs(Str("vanilla")), ObjArgs(Str("strawberry")),
     ObjArgs(Str("chocolate")), ObjArgs(Str("mango"))}

\* request.params.name
ToolNames == {getName, "nonexistent"}

\* what elicitInput resolves to: a falsy value, or {action, content?}
NoResult == [t |-> "undefined", action |-> "", hasContent |-> FALSE, flavour |-> Undefined]
ElicitResult(a, c, x) == [t |-> "object", action |-> a, hasContent |-> c, flavour |-> x]
ContentValues ==
    {Undefined, Str(""), Str("vanilla"), Str("strawberry"), Str("chocolate"), Str("mango")}
ElicitResults ==
    {NoResult, ElicitResult("decline", FALSE, Undefined),
     ElicitResult("cancel", FALSE, Undefined),
     ElicitResult("cancel", TRUE, Str("vanilla")),
     ElicitResult("accept", FALSE, Undefined)}
    \cup {ElicitResult("accept", TRUE, x) : x \in ContentValues}

\* the answers to the elicitation requests of Spec
RequestAnswers ==
    {ElicitResult("decline", FALSE, Undefined), ElicitResult("cancel", FALSE, Undefined)}
    \cup {ElicitResult("accept", TRUE, x) :
            x \in {Undefined, Str("vanilla"), Str("strawberry"), Str("chocolate"), Str("mango")}}

\* what elicitInput rejects with: an Error with a message, or any other value
ErrorObj(m) == [t |-> "Error", message |-> m]
Rejections == {ErrorObj(<<"Request timed out">>), Str("connection closed")}

----------------------------------------------------------------------------
(* Tool results *)

TextResult(text) == [content |-> <<[type |-> "text", text |-> text]>>]
ErrorResult(text) == [content |-> <<[type |-> "text", text |-> text]>>, isError |-> TRUE]

\* how a caller reads the flag: a result without the field is not an error
IsError(r) == "isError" \in DOMAIN r /\ r.isError

\* the text of the single content block
TextOf(r) == r.content[1].text

\* Array.prototype.join, giving the pieces of the joined string
RECURSIVE join(_, _)
join(arr, sep) ==
    IF Len(arr) = 0 THEN <<>>
    ELSE IF Len(arr) = 1 THEN <<arr[1]>>
    ELSE <<arr[1], sep>> \o join(Tail(arr), sep)

CancelledResult == ErrorResult(<<"[cross-mark] Cancelled by user or no flavour selected.">>)

UnknownFlavourResult == ErrorResult(<<"[cross-mark] Unknown flavour.">>)

\* Toppings with the lists of two cases exchanged
ToppingsSwapped(flavour) ==
    CASE flavour = Str("vanilla") -> <<"caramel sauce", "rainbow sprinkles", "crushed cookies">>
      [] flavour = Str("strawberry") -> <<"chopped nuts", "marshmallows", "hot fudge">>
      [] flavour = Str("chocolate") -> <<"white chocolate chips", "fresh berries", "whipped cream">>
      [] OTHER -> <<>>

\* Toppings matching the flavour without regard to the case of its first letter
ToppingsAnyCase(flavour) ==
    CASE flavour \in {Str("vanilla"), Str("Vanilla")} ->
            <<"caramel sauce", "rainbow sprinkles", "crushed cookies">>
      [] flavour = Str("strawberry") -> <<"white chocolate chips", "fresh berries", "whipped cream">>
      [] flavour = Str("chocolate") -> <<"chopped nuts", "marshmallows", "hot fudge">>
      [] OTHER -> <<>>

\* the cases of `switch (flavour)`; <<>> stands for the default case
Toppings(flavour) ==
    CASE flavour = Str("vanilla") -> <<"caramel sauce", "rainbow sprinkles", "crushed cookies">>
      [] flavour = Str("strawberry") -> <<"white chocolate chips", "fresh berries", "whipped cream">>
      [] flavour = Str("chocolate") -> <<"chopped nuts", "marshmallows", "hot fudge">>
      [] OTHER -> <<>>

\* Recommend without the default case of the switch
RecommendNoDefault(flavour) ==
    TextResult(<<"[ice-cream] For ", JSString(flavour), " ice cream, the best toppings are: ">>
               \o join(Toppings(flavour), ", ") \o <<".">>)

\* the switch and the final return of execute
Recommend(flavour) ==
    IF Toppings(flavour) = <<>>
    THEN UnknownFlavourResult
    ELSE TextResult(<<"[ice-cream] For ", JSString(flavour), " ice cream, the best toppings are: ">>
                    \o join(Toppings(flavour), ", ") \o <<".">>)

----------------------------------------------------------------------------
(* execute, as the two runs of code around its single await *)

NoError == [t |-> "none", v |-> ""]
NoToolResult == [content |-> <<>>]

\* how a run of code ends: suspended at the await, returned, or threw
\* (request: the elicitation request sent; flavour: the value the switch was
\* given; lookups: how many times the switch was reached; executed: execute ran)
NoRequest == [message |-> "", requestedSchema |-> [type |-> "none"]]
Suspend == [k |-> "suspend", result |-> NoToolResult, error |-> NoError,
            request |-> ElicitParams, flavour |-> Undefined, lookups |-> 0,
            executed |-> TRUE]
Return(r, f, n) == [k |-> "return", result |-> r, error |-> NoError,
                    request |-> NoRequest, flavour |-> f, lookups |-> n,
                    executed |-> TRUE]
Throw(e) == [k |-> "throw", result |-> NoToolResult, error |-> e,
             request |-> NoRequest, flavour |-> Undefined, lookups |-> 0,
             executed |-> FALSE]

\* ArgFlavour falling back on a flavour kept from an earlier invocation
ArgFlavourShared(args) == IF args.t = "undefined" THEN inv[1].flavour ELSE args.flavour

\* let { flavour } = args || {}
ArgFlavour(args) == IF args.t = "undefined" THEN Undefined ELSE args.flavour

\* NeedsElicit asking whenever there is an elicitation function
NeedsElicitAlways(flavour, hasElicit) == hasElicit

\* NeedsElicit without the test of elicitInput
NeedsElicitNoChannelTest(flavour, hasElicit) == ~Truthy(flavour)

\* if (!flavour && elicitInput)
NeedsElicit(flavour, hasElicit) == ~Truthy(flavour) /\ hasElicit

\* Accepted without the test of the action
AcceptedAnyAction(result) ==
    /\ result.t = "object"
    /\ result.hasContent
    /\ Truthy(result.flavour)

\* result && result.action === "accept" && result.content?.flavour
Accepted(result) ==
    /\ result.t = "object"
    /\ result.action = "accept"
    /\ result.hasContent
    /\ Truthy(result.flavour)

\* from the entry of execute to the await or to the return
executeStart(args, hasElicit) ==
    LET flavour == ArgFlavour(args) IN
    IF NeedsElicit(flavour, hasElicit)
    THEN Suspend
    ELSE Return(Recommend(flavour), flavour, 1)

\* executeResume without the assignment `flavour = result.content.flavour`
executeResumeNoAssign(result) ==
    IF Accepted(result)
    THEN Return(Recommend(Undefined), Undefined, 1)
    ELSE Return(CancelledResult, Undefined, 0)

\* executeResume without the early return of the else branch
executeResumeFallThrough(result) ==
    IF Accepted(result)
    THEN Return(Recommend(result.flavour), result.flavour, 1)
    ELSE Return(Recommend(Undefined), Undefined, 1)

\* executeResume asking again when the answer is not usable
executeResumeRetry(result) ==
    IF Accepted(result)
    THEN Return(Recommend(result.flavour), result.flavour, 1)
    ELSE Suspend

\* executeResume with a text of its own for a declined request
executeResumeDeclineText(result) ==
    IF Accepted(result)
    THEN Return(Recommend(result.flavour), result.flavour, 1)
    ELSE IF result.t = "object" /\ result.action = "decline"
         THEN Return(ErrorResult(<<"[cross-mark] Declined by user.">>), Undefined, 0)
         ELSE Return(CancelledResult, Undefined, 0)

\* from the resolution of elicitInput to the return
executeResume(result) ==
    IF Accepted(result)
    THEN Return(Recommend(result.flavour), result.flavour, 1)
    ELSE Return(CancelledResult, Undefined, 0)

----------------------------------------------------------------------------
(* The dispatcher *)

\* error instanceof Error ? error.message : String(error)
errorMessage(error) ==
    IF error.t = "Error" THEN error.message ELSE <<JSString(error)>>

handleToolError(error, toolName) ==
    ErrorResult(<<"[cross-mark] Error in ", toolName, ": ">> \o errorMessage(error))

\* the handler without its try/catch
CatchNothing(out, toolName) == out

\* the catch clause of the call-tool handler
Catch(out, toolName) ==
    IF out.k = "throw"
    THEN [Return(handleToolError(out.error, toolName), out.flavour, out.lookups)
             EXCEPT !.executed = out.executed]
    ELSE out

\* the try block without the check of the tool name
handlerStartNoCheck(name, args) == executeStart(args, TRUE)

\* the try block of the call-tool handler, up to the first await or the end
handlerStart(name, args) ==
    IF name # getName
    THEN Throw(ErrorObj(<<"Unknown tool: ", name>>))
    ELSE executeStart(args, TRUE)

\* a list response that registers the tool once more on every call
ListToolsResponseGrowing ==
    [tools |-> [k \in 1..(Len(listResp) + 1) |->
                  [name |-> getName,
                   description |-> getDescription,
                   inputSchema |-> getInputSchema]]]

ListToolsResponse ==
    [tools |-> <<[name |-> getName,
                  description |-> getDescription,
                  inputSchema |-> getInputSchema]>>]

----------------------------------------------------------------------------
(* State *)

Pending == [t |-> "pending", action |-> "", hasContent |-> FALSE, flavour |-> Undefined]

Idle ==
    [pc |-> "idle", name |-> "", args |-> NoArgs, channel |-> FALSE,
     resp |-> Pending, err |-> NoError,
     req |-> NoRequest, result |-> NoToolResult, flavour |-> Undefined,
     elicits |-> 0, lookups |-> 0, executed |-> FALSE]

PcAfter(out) ==
    CASE out.k = "suspend" -> "await"
      [] out.k = "return" -> "done"
      [] OTHER -> "escaped"

\* the effect of one run of code on the invocation's record
After(rec, out) ==
    [rec EXCEPT !.pc = PcAfter(out),
                !.result = out.result,
                !.req = out.request,
                !.executed = @ \/ out.executed,
                !.flavour = out.flavour,
                !.elicits = @ + (IF out.k = "suspend" THEN 1 ELSE 0),
                !.lookups = @ + out.lookups]

Init ==
    /\ inv = [i \in Ids |-> Idle]
    /\ listResp = <<>>
    /\ clientElicitation \in BOOLEAN

\* CallTool as a handler that waits for the suspended invocations to finish
CallToolSerial(i, name, args) ==
    /\ inv[i].pc = "idle"
    /\ \A j \in Ids : j < i => inv[j].pc # "idle"
    /\ \A j \in Ids : inv[j].pc # "await"
    /\ inv' = [inv EXCEPT ![i] =
                 After([@ EXCEPT !.name = name, !.args = args, !.channel = TRUE],
                       Catch(handlerStart(name, args), name))]
    /\ UNCHANGED <<listResp, clientElicitation>>

\* a call-tool request arrives and its handler runs to the first await or to the end
CallTool(i, name, args) ==
    /\ inv[i].pc = "idle"
    /\ \A j \in Ids : j < i => inv[j].pc # "idle"
    /\ inv' = [inv EXCEPT ![i] =
                 After([@ EXCEPT !.name = name, !.args = args, !.channel = TRUE],
                       Catch(handlerStart(name, args), name))]
    /\ UNCHANGED <<listResp, clientElicitation>>

\* the caller answers the elicitation request of invocation i
ElicitResolve(i, r) ==
    /\ inv[i].pc = "await"
    /\ inv' = [inv EXCEPT ![i] =
                 After([@ EXCEPT !.resp = r],
                       Catch(executeResume(r), inv[i].name))]
    /\ UNCHANGED <<listResp, clientElicitation>>

\* the elicitation request of invocation i fails
ElicitReject(i, e) ==
    /\ inv[i].pc = "await"
    /\ inv' = [inv EXCEPT ![i] =
                 After([@ EXCEPT !.err = e],
                       Catch(Throw(e), inv[i].name))]
    /\ UNCHANGED <<listResp, clientElicitation>>

\* a list-tools request arrives and is answered
ListTools ==
    /\ Len(listResp) < MaxList
    /\ listResp' = Append(listResp, ListToolsResponse)
    /\ UNCHANGED <<inv, clientElicitation>>

Next ==
    \/ \E i \in Ids, name \in ToolNames, args \in RequestArgs : CallTool(i, name, args)
    \/ \E i \in Ids, r \in RequestAnswers : ElicitResolve(i, r)
    \/ \E i \in Ids, e \in Rejections : ElicitReject(i, e)
    \/ ListTools

Spec == Init /\ [][Next]_vars

\* the elicitation request of invocation i is answered or fails
Answer(i) ==
    \/ \E r \in RequestAnswers : ElicitResolve(i, r)
    \/ \E e \in Rejections : ElicitReject(i, e)

\* the call-tool requests alone (list-tools requests leave the invocations as they are)
NextCalls ==
    \/ \E i \in Ids, name \in ToolNames, args \in RequestArgs : CallTool(i, name, args)
    \/ \E i \in Ids : Answer(i)

\* the call-tool requests when every elicitation request issued is eventually
\* answered or fails
FairSpec == Init /\ [][NextCalls]_vars /\ \A i \in Ids : WF_vars(Answer(i))

----------------------------------------------------------------------------
(* One call of execute on its own *)

\* execute(args, elicitInput?) is called and runs to its await or to its return
ExecuteCall(i, args, hasElicit) ==
    /\ \A j \in Ids : inv[j].pc = "idle"
    /\ inv' = [inv EXCEPT ![i] =
                 After([@ EXCEPT !.name = getName, !.args = args, !.channel = hasElicit],
                       executeStart(args, hasElicit))]
    /\ UNCHANGED <<listResp, clientElicitation>>

\* the elicitation function given to execute resolves with r
ExecuteResolve(i, r) ==
    /\ inv[i].pc = "await"
    /\ inv' = [inv EXCEPT ![i] = After([@ EXCEPT !.resp = r], executeResume(r))]
    /\ UNCHANGED <<listResp, clientElicitation>>

\* the elicitation function given to execute rejects with e, and so does execute
ExecuteReject(i, e) ==
    /\ inv[i].pc = "await"
    /\ inv' = [inv EXCEPT ![i] =
                 After([@ EXCEPT !.err = e], [Throw(e) EXCEPT !.executed = TRUE])]
    /\ UNCHANGED <<listResp, clientElicitation>>

NextExec ==
    \/ \E i \in Ids, args \in ArgsValues, hasElicit \in BOOLEAN : ExecuteCall(i, args, hasElicit)
    \/ \E i \in Ids, r \in ElicitResults : ExecuteResolve(i, r)
    \/ \E i \in Ids, e \in Rejections : ExecuteReject(i, e)

SpecExec == Init /\ [][NextExec]_vars

----------------------------------------------------------------------------
(* Vocabulary of the properties *)

Range(s) == {s[k] : k \in DOMAIN s}

\* sub occurs in text as a run of consecutive pieces
ContainsSeq(text, sub) ==
    \E k \in 1..(Len(text) - Len(sub) + 1) : SubSeq(text, k, k + Len(sub) - 1) = sub

\* invocation i ran execute and has its result
Returned(i) == inv[i].pc = "done" /\ inv[i].executed

\* invocation i was given flavour f directly in its arguments
Direct(i, f) == inv[i].args = ObjArgs(Str(f))

\* invocation i had no usable flavour and its elicitation was answered by r
Elicited(i, r) == inv[i].elicits = 1 /\ inv[i].resp = r

Declared == {"vanilla", "strawberry", "chocolate"}

\* the three toppings of each declared flavour, comma-joined, as the documentation gives them
JoinedToppings(f) ==
    CASE f = "vanilla" -> <<"caramel sauce", ", ", "rainbow sprinkles", ", ", "crushed cookies">>
      [] f = "strawberry" -> <<"white chocolate chips", ", ", "fresh berries", ", ", "whipped cream">>
      [] f = "chocolate" -> <<"chopped nuts", ", ", "marshmallows", ", ", "hot fudge">>

AllToppings ==
    {"caramel sauce", "rainbow sprinkles", "crushed cookies",
     "white chocolate chips", "fresh berries", "whipped cream",
     "chopped nuts", "marshmallows", "hot fudge"}

----------------------------------------------------------------------------
(* Properties *)

\* C1: for each declared flavour f, a call with {flavour: f} returns a result
\* that is not an error and has a single text block holding exactly the three
\* toppings of f, joined by ", " in the fixed order.
C1_DeclaredFlavourToppings ==
    \A i \in Ids : \A f \in Declared :
        (Returned(i) /\ Direct(i, f)) =>
            /\ ~IsError(inv[i].result)
            /\ Len(inv[i].result.content) = 1
            /\ inv[i].result.content[1].type = "text"
            /\ ContainsSeq(TextOf(inv[i].result), JoinedToppings(f))
            /\ Range(TextOf(inv[i].result)) \cap AllToppings
                   = Range(JoinedToppings(f)) \cap AllToppings

C1_Witness ==
    \E i \in Ids : Returned(i) /\ Direct(i, "strawberry") /\ ~IsError(inv[i].result)

\* C2: a call without flavour whose elicitation is answered Accepted{flavour: f},
\* f declared, returns the same result as a call with {flavour: f}.
C2_ElicitedEqualsDirect ==
    \A i, j \in Ids : \A f \in Declared :
        (/\ Returned(i) /\ Direct(i, f)
         /\ Returned(j) /\ ~Truthy(ArgFlavour(inv[j].args))
         /\ Elicited(j, ElicitResult("accept", TRUE, Str(f))))
        => inv[j].result = inv[i].result

C2_Witness ==
    /\ Returned(1) /\ inv[1].args = ObjArgs(Undefined)
    /\ Elicited(1, ElicitResult("accept", TRUE, Str("vanilla")))
    /\ Returned(2) /\ Direct(2, "vanilla")

\* C3: a call without flavour whose elicitation is answered Cancelled returns an
\* error with the cancellation text, and the flavour lookup is never reached.
C3_CancelledFails ==
    \A i \in Ids :
        (Returned(i) /\ inv[i].elicits = 1 /\ inv[i].resp.action = "cancel") =>
            /\ IsError(inv[i].result)
            /\ TextOf(inv[i].result) = <<"[cross-mark] Cancelled by user or no flavour selected.">>
            /\ inv[i].lookups = 0

C3_Witness ==
    \E i \in Ids :
        /\ Returned(i) /\ inv[i].args = ObjArgs(Undefined)
        /\ Elicited(i, ElicitResult("cancel", TRUE, Str("vanilla")))

\* C4: a call with a flavour outside the declared set returns an error whose
\* text names the invalid value, and no elicitation is issued.
C4_InvalidValueNamed ==
    \A i \in Ids : \A v \in {"mango", "Vanilla"} :
        (Returned(i) /\ Direct(i, v)) =>
            /\ IsError(inv[i].result)
            /\ v \in Range(TextOf(inv[i].result))
            /\ inv[i].elicits = 0

\* C5: a call naming a tool that is not registered returns (does not throw) an
\* error result whose text mentions "Unknown tool" and the requested name; the
\* tool is not executed and no elicitation is issued.
C5_UnknownToolRecovered ==
    \A i \in Ids :
        (inv[i].pc # "idle" /\ inv[i].name # getName) =>
            /\ inv[i].pc = "done"
            /\ IsError(inv[i].result)
            /\ ContainsSeq(TextOf(inv[i].result), <<"Unknown tool: ", inv[i].name>>)
            /\ ~inv[i].executed
            /\ inv[i].lookups = 0
            /\ inv[i].elicits = 0

C5_Witness ==
    /\ inv[1].pc = "done" /\ inv[1].name = "nonexistent"
    /\ inv[1].args = ObjArgs(Undefined)

\* the description of each failure the elicitation call can end with
FailureText(e) ==
    CASE e = ErrorObj(<<"Request timed out">>) -> "Request timed out"
      [] e = Str("connection closed") -> "connection closed"

\* C6: no fault raised while an invocation runs escapes the handler; a failed
\* elicitation call is turned into an error result whose text includes the tool
\* name and the description of the failure.
C6_FaultsCaught ==
    \A i \in Ids :
        /\ inv[i].pc # "escaped"
        /\ (inv[i].pc # "idle" /\ inv[i].name # getName) =>
               (inv[i].pc = "done" /\ IsError(inv[i].result)
                /\ inv[i].name \in Range(TextOf(inv[i].result)))
        /\ inv[i].err # NoError =>
               /\ inv[i].pc = "done"
               /\ IsError(inv[i].result)
               /\ Len(inv[i].result.content) = 1
               /\ inv[i].name \in Range(TextOf(inv[i].result))
               /\ FailureText(inv[i].err) \in Range(TextOf(inv[i].result))

C6_Witness ==
    /\ inv[1].pc = "done" /\ inv[1].err = ErrorObj(<<"Request timed out">>)
    /\ inv[2].pc = "done" /\ inv[2].err = Str("connection closed")

\* the answers after which the tool fails: declined, cancelled, or accepted
\* without a declared flavour
Refusals ==
    {r \in ElicitResults :
        /\ r.t = "object"
        /\ \/ r.action \in {"decline", "cancel"}
           \/ r.action = "accept" /\ ~(r.hasContent /\ r.flavour.t = "string"
                                       /\ r.flavour.v \in Declared)}

\* C7: an invocation calls the elicitation channel at most once, never after
\* its result is produced, and never again after an answer has been received.
C7_ElicitAtMostOnce ==
    [][\A i \in Ids :
          /\ inv'[i].elicits <= 1
          /\ inv[i].pc \in {"done", "escaped"} =>
                 (inv'[i].elicits = inv[i].elicits /\ inv'[i].pc = inv[i].pc)
          /\ inv[i].resp \in Refusals => inv'[i].elicits = inv[i].elicits
          /\ inv'[i].resp \in Refusals => inv'[i].pc # "await"]_vars

C7_Witness ==
    /\ Returned(1) /\ Elicited(1, ElicitResult("accept", TRUE, Str("mango")))
    /\ Returned(2) /\ Elicited(2, ElicitResult("decline", FALSE, Undefined))

C9_ListToolsIdempotent ==
    [][/\ listResp' # listResp => inv' = inv
       /\ \A k \in 1..Len(listResp') :
             /\ listResp'[k] = listResp'[1]
             /\ Len(listResp'[k].tools) = 1
             /\ listResp'[k].tools[1].name = "ice_cream_topping_recommender"
             /\ listResp'[k].tools[1].description = getDescription
             /\ listResp'[k].tools[1].inputSchema = getInputSchema]_vars

C9_Witness ==
    /\ Len(listResp) = 2
    /\ inv[1].pc = "await"
    /\ inv[2].pc = "done"

\* C10: invocations are independent: whether an invocation elicits depends on
\* its own request only, its result on its own request and its own answer only;
\* a step changes the record of one invocation at most, and an answer or a
\* failure is delivered only to an invocation awaiting its own elicitation.
C10_Independent ==
    [][/\ \A i, j \in Ids :
             /\ (inv'[i].pc # "idle" /\ inv'[j].pc # "idle"
                 /\ inv'[i].name = inv'[j].name /\ inv'[i].args = inv'[j].args)
                => inv'[i].elicits = inv'[j].elicits
             /\ (inv'[i].pc = "done" /\ inv'[j].pc = "done"
                 /\ inv'[i].name = inv'[j].name /\ inv'[i].args = inv'[j].args
                 /\ inv'[i].resp = inv'[j].resp /\ inv'[i].err = inv'[j].err)
                => inv'[i].result = inv'[j].result
             /\ (i # j /\ inv'[i] # inv[i]) => inv'[j] = inv[j]
       /\ \A i \in Ids :
             (inv'[i].resp # inv[i].resp \/ inv'[i].err # inv[i].err)
             => (inv[i].pc = "await" /\ inv[i].elicits = 1)
       /\ inv' # inv => listResp' = listResp]_vars

C10_Witness ==
    /\ inv[1].pc = "await" /\ inv[1].args = NoArgs
    /\ inv[2].pc = "done" /\ inv[2].args = NoArgs
    /\ Elicited(2, ElicitResult("accept", TRUE, Str("chocolate")))

\* the next call-tool request would be taken by slot j
NextSlot(j) == inv[j].pc = "idle" /\ \A k \in Ids : k < j => inv[k].pc # "idle"

\* C11: while an invocation is suspended at its elicitation, a list-tools
\* request can be answered and another call-tool request can be accepted and
\* run to its result, the suspended invocation staying suspended.
C11_SuspendedDoesNotBlock ==
    \A i \in Ids :
        inv[i].pc = "await" =>
            /\ Len(listResp) < MaxList =>
                   ENABLED (ListTools /\ inv'[i].pc = "await")
            /\ \A j \in Ids : NextSlot(j) =>
                   /\ \A name \in ToolNames, args \in RequestArgs :
                         ENABLED CallTool(j, name, args)
                   /\ ENABLED (/\ CallTool(j, getName, ObjArgs(Str("vanilla")))
                               /\ inv'[j].pc = "done"
                               /\ inv'[i].pc = "await")
            /\ \A j \in Ids \ {i} : inv[j].pc = "await" =>
                   \A r \in RequestAnswers :
                       ENABLED (/\ ElicitResolve(j, r)
                               /\ inv'[j].pc = "done"
                               /\ inv'[i].pc = "await")

C11_Witness ==
    /\ inv[1].pc = "await" /\ inv[1].resp = Pending
    /\ Returned(2) /\ ~IsError(inv[2].result)
    /\ Len(listResp) >= 1

\* C12: execute without an elicitation function and without a flavour returns
\* the unknown-flavour error and issues no elicitation.
C12_NoChannelMissingFlavour ==
    \A i \in Ids :
        (/\ inv[i].pc # "idle" /\ inv[i].executed
         /\ ~inv[i].channel
         /\ inv[i].args \in {NoArgs, ObjArgs(Undefined)})
        => /\ inv[i].pc = "done"
           /\ IsError(inv[i].result)
           /\ TextOf(inv[i].result) = <<"[cross-mark] Unknown flavour.">>
           /\ inv[i].elicits = 0
           /\ inv[i].req = NoRequest

C12_Witness ==
    \E i \in Ids :
        /\ Returned(i) /\ ~inv[i].channel /\ inv[i].args = ObjArgs(Undefined)
        /\ IsError(inv[i].result)

\* the state of an invocation in the terms of the tool's state machine
StateOf(rec) ==
    CASE rec.pc = "idle" -> "START"
      [] rec.pc = "await" -> "AWAITING_ELICITATION"
      [] rec.pc = "done" /\ ~IsError(rec.result) -> "DONE"
      [] rec.pc = "done" /\ IsError(rec.result) -> "FAILED"
      [] OTHER -> "THROWN"

DeclaredValue(x) == x.t = "string" /\ x.v \in Declared

\* C13 as stated: an invocation moves START -> DONE (flavour present),
\* START -> AWAITING_ELICITATION, AWAITING_ELICITATION -> DONE (Accepted) or
\* AWAITING_ELICITATION -> FAILED (Declined / Cancelled), and in no other way.
C13_StateMachineAsStated ==
    [][\A i \in Ids :
          LET a == StateOf(inv[i])
              b == StateOf(inv'[i])
          IN  \/ inv'[i] = inv[i]
              \/ a = "START" /\ b = "DONE" /\ inv'[i].args.flavour # Undefined
              \/ a = "START" /\ b = "AWAITING_ELICITATION"
              \/ a = "AWAITING_ELICITATION" /\ b = "DONE"
                   /\ inv'[i].resp.action = "accept"
              \/ a = "AWAITING_ELICITATION" /\ b = "FAILED"
                   /\ inv'[i].resp.action \in {"decline", "cancel"}]_vars

\* C13 as amended: START -> DONE when the flavour given is a declared one;
\* START -> FAILED (unknown flavour) when it is non-empty and not declared, or is
\* missing and there is no elicitation function; START -> AWAITING_ELICITATION
\* when it is missing or empty and there is an elicitation function;
\* AWAITING_ELICITATION -> DONE on Accepted with a declared flavour;
\* AWAITING_ELICITATION -> FAILED on any other answer; AWAITING_ELICITATION ->
\* thrown when the elicitation call fails.  DONE, FAILED and thrown are final.
C13_StateMachine ==
    [][\A i \in Ids :
          LET a == StateOf(inv[i])
              b == StateOf(inv'[i])
              f == IF inv'[i].args.t = "undefined" THEN Undefined ELSE inv'[i].args.flavour
          IN  \/ inv'[i] = inv[i]
              \/ a = "START" /\ b = "DONE" /\ DeclaredValue(f)
              \/ a = "START" /\ b = "FAILED"
                   /\ inv'[i].result = UnknownFlavourResult
                   /\ \/ f \notin {Undefined, Null, Str(""), Num("0"), Bool("false")}
                         /\ ~DeclaredValue(f)
                      \/ f \in {Undefined, Null, Str(""), Num("0"), Bool("false")}
                         /\ ~inv'[i].channel
              \/ a = "START" /\ b = "AWAITING_ELICITATION"
                   /\ f \in {Undefined, Null, Str(""), Num("0"), Bool("false")}
                   /\ inv'[i].channel
              \/ a = "AWAITING_ELICITATION" /\ b = "DONE"
                   /\ inv'[i].resp.action = "accept" /\ inv'[i].resp.hasContent
                   /\ DeclaredValue(inv'[i].resp.flavour)
              \/ a = "AWAITING_ELICITATION" /\ b = "FAILED"
                   /\ inv'[i].resp # Pending
                   /\ ~(inv'[i].resp.action = "accept" /\ inv'[i].resp.hasContent
                         /\ DeclaredValue(inv'[i].resp.flavour))
              \/ a = "AWAITING_ELICITATION" /\ b = "THROWN"
                   /\ inv'[i].err # NoError]_vars

C13_Witness ==
    \E i \in Ids :
        /\ StateOf(inv[i]) = "FAILED"
        /\ inv[i].executed /\ inv[i].elicits = 0
        /\ inv[i].args = ObjArgs(Str("mango"))

\* the flavour an invocation resolved: the one given, or else the one accepted
Resolved(rec) ==
    IF rec.args.t = "object" /\ rec.args.flavour \notin {Undefined, Null, Str(""), Num("0"), Bool("false")}
    THEN rec.args.flavour
    ELSE IF rec.resp.t = "object" /\ rec.resp.action = "accept" /\ rec.resp.hasContent
         THEN rec.resp.flavour
         ELSE Undefined

\* C14: a result that is not an error is produced only when the resolved
\* flavour is exactly "vanilla", "strawberry" or "chocolate"; any other value
\* that reaches the lookup gives an error with the "Unknown flavour." text.
C14_OnlyDeclaredRecommended ==
    \A i \in Ids :
        Returned(i) =>
            /\ ~IsError(inv[i].result) =>
                   (Resolved(inv[i]) \in {Str("vanilla"), Str("strawberry"), Str("chocolate")}
                    /\ inv[i].flavour = Resolved(inv[i]))
            /\ (inv[i].lookups = 1
                /\ Resolved(inv[i]) \notin {Str("vanilla"), Str("strawberry"), Str("chocolate")})
               => (IsError(inv[i].result)
                   /\ TextOf(inv[i].result) = <<"[cross-mark] Unknown flavour.">>)

C14_Witness ==
    \E i \in Ids :
        /\ Returned(i) /\ Direct(i, "Vanilla")
        /\ inv[i].lookups = 1 /\ IsError(inv[i].result)

\* C15: a flavour argument that is present but not an allowed value (the empty
\* string, 0, false and null included) gives an error result and never an
\* elicitation request.
C15_PresentInvalidNeverElicits ==
    \A i \in Ids :
        (/\ inv[i].pc # "idle" /\ inv[i].executed
         /\ inv[i].args.t = "object"
         /\ inv[i].args.flavour # Undefined
         /\ ~DeclaredValue(inv[i].args.flavour))
        => /\ inv[i].elicits = 0
           /\ inv[i].pc = "done"
           /\ IsError(inv[i].result)

\* C16: with a declared flavour in the arguments and an elicitation function
\* available, the result is produced at once and no elicitation is issued.
C16_DeclaredSkipsElicitation ==
    \A i \in Ids : \A f \in Declared :
        (inv[i].pc # "idle" /\ inv[i].executed /\ inv[i].channel /\ Direct(i, f))
        => /\ inv[i].pc = "done"
           /\ inv[i].elicits = 0
           /\ inv[i].req = NoRequest
           /\ inv[i].resp = Pending
           /\ inv[i].lookups = 1

C16_Witness ==
    \E i \in Ids :
        /\ Returned(i) /\ inv[i].channel /\ Direct(i, "chocolate")
        /\ inv[i].elicits = 0

\* C17: the dispatcher gives execute an elicitation function only when the
\* client declared the elicitation capability; for a client that did not, a
\* call without flavour issues no elicitation and returns the unknown-flavour
\* error.
C17_ChannelOnlyWithCapability ==
    \A i \in Ids :
        (inv[i].pc # "idle" /\ inv[i].executed /\ ~clientElicitation)
        => /\ ~inv[i].channel
           /\ inv[i].args \in {NoArgs, ObjArgs(Undefined)} =>
                  (/\ inv[i].elicits = 0
                   /\ inv[i].pc = "done"
                   /\ inv[i].result = UnknownFlavourResult)

\* C18: for the same arguments, an invocation answered Declined and one
\* answered Cancelled return identical results, both errors.
C18_DeclinedEqualsCancelled ==
    \A i, j \in Ids :
        (/\ Returned(i) /\ Returned(j) /\ inv[i].args = inv[j].args
         /\ inv[i].elicits = 1 /\ inv[i].resp.action = "decline"
         /\ inv[j].elicits = 1 /\ inv[j].resp.action = "cancel")
        => /\ inv[i].result = inv[j].result
           /\ IsError(inv[i].result)
           /\ Len(inv[i].result.content) = 1

C18_Witness ==
    /\ Returned(1) /\ Elicited(1, ElicitResult("decline", FALSE, Undefined))
    /\ Returned(2) /\ Elicited(2, ElicitResult("cancel", FALSE, Undefined))
    /\ inv[1].args = inv[2].args

\* C19: when every elicitation request issued is eventually answered or fails,
\* every call-tool request eventually has its result, and has it once and for
\* all; an invocation leaves its suspension only by an answer or a failure of
\* its elicitation (there is no timeout), so unanswered it stays suspended.
C19_EveryCallAnswered ==
    /\ \A i \in Ids : (inv[i].pc # "idle") ~> (inv[i].pc = "done")
    /\ [][\A i \in Ids :
             /\ inv[i].pc = "done" => inv'[i] = inv[i]
             /\ (inv[i].pc = "await" /\ inv'[i].pc # "await")
                => (inv'[i].resp # inv[i].resp \/ inv'[i].err # inv[i].err)]_vars

C19_Witness ==
    /\ inv[1].pc = "done" /\ inv[1].elicits = 1 /\ inv[1].resp # Pending
    /\ inv[2].pc = "done" /\ inv[2].elicits = 1 /\ inv[2].err # NoError

====
